---- MODULE Spec2Model ----
(***************************************************************************)
(* Model of server/python/worker.py: the line-oriented JSON transcription  *)
(* worker.  run_server loads the engine once, then reads request lines,    *)
(* hands each to transcribe_with_model and prints progress / segment /     *)
(* result messages.  run_single_file handles one file and prints one bare  *)
(* object.                                                                 *)
(*                                                                         *)
(* Units: times are integers (one unit = one second); percentages are kept *)
(* in tenths of a percent, so 1000 is 100.0 and -10 is the -1 that         *)
(* last_pct starts from.                                                   *)
(*                                                                         *)
(* The engine (faster_whisper) is an external collaborator: every outcome  *)
(* it can produce (raise at the call, yield a segment, raise while being   *)
(* iterated, stop) is a nondeterministic choice.  Segment times are        *)
(* non-negative.                                                           *)
(***************************************************************************)
EXTENDS Integers, Sequences, FiniteSets, TLC

VARIABLES
  argv,              \* sys.argv[1:], the command line after the script name
  assets,            \* what is on disk under MODEL_PATH, and whether the
                     \* engine can be loaded from it
  model,             \* the engine handle (0: not created)
  loads,             \* number of create_model calls so far
  pc,                \* position: main, start, read, dispatch, drain, except,
                     \* single, single_call, done (returned), crashed
                     \* (uncaught exception)
  line,              \* run_server: the stripped line last read
  payload,           \* run_server: payload
  req_id,            \* run_server: req_id (captured by the send_* closures)
  total_duration,    \* run_server: total_duration; in one-shot mode the
                     \* default 0 of transcribe_with_model's parameter
  exc,               \* the exception in flight, as str(e)
  transcribe_kwargs, \* transcribe_with_model: kwargs given to the engine
  info,              \* transcribe_with_model: metadata the engine returned
  result_segments,   \* transcribe_with_model: result_segments
  full_text,         \* transcribe_with_model: full_text
  last_pct,          \* transcribe_with_model: last_pct
  out,               \* stdout lines written since the last readline
  engine_calls,      \* model.transcribe invocations since the last readline
  handle_used,       \* history: handle given to transcribe_with_model for
                     \* this line (0: none)
  yielded,           \* history: segments the engine yielded for this line
  engine_raised,     \* history: "no", "call" or "iter" for this line
  prev_failed,       \* history: the previous handled line gave an error
  prev_full_id,      \* history: the id under which the previous handled line
                     \* was sent progress 100.0 ("" when it was not)
  nRead,             \* number of lines read so far
  nNonBlank,         \* history: number of non-blank lines read so far
  nResults           \* history: number of result messages written so far

vars ==
  <<argv, assets, model, loads, pc, line, payload, req_id, total_duration,
    exc, transcribe_kwargs, info, result_segments, full_text, last_pct, out,
    engine_calls, handle_used, yielded, engine_raised, prev_failed,
    prev_full_id, nRead, nNonBlank, nResults>>

(* ---- bounds ---- *)
MaxLines == 2
MaxSegs == 2
MaxT == 2

(* ---- values ---- *)
None == "None"
Absent == "<absent>"
Unbound == "<unbound>"

AbsentNum == [t |-> "absent", n |-> 0]
NullNum == [t |-> "null", n |-> 0]
BadNum == [t |-> "str", n |-> 0]
NoneNum == [t |-> "none", n |-> 0]
Num(k) == [t |-> "num", n |-> k]

Ids == {Absent, "r1", "r2"}
AudioFiles == {Absent, "", "exists.wav", "missing.wav"}
Durations ==
  {AbsentNum, NullNum, BadNum, Num(0), Num(-1), Num(1), Num(3), Num(16)}
Prompts == {Absent, None, "", "p"}
Tasks == {Absent, None, "translate"}
Languages == {Absent, "en"}
Conditions == {Absent, "true", "false"}
Thresholds == {AbsentNum, NullNum, Num(0), Num(2)}
Texts == {"a", "b"}

EmptyObj ==
  [id |-> Absent, audio_file |-> Absent, duration |-> AbsentNum,
   initial_prompt |-> Absent, task |-> Absent, language |-> Absent,
   condition_on_previous_text |-> Absent,
   compression_ratio_threshold |-> AbsentNum]

(* Request objects that vary the fields the loop itself reads. *)
ProtocolObjs ==
  {[EmptyObj EXCEPT !.id = i, !.audio_file = a, !.duration = d] :
     i \in Ids, a \in AudioFiles, d \in Durations}

(* Request objects that vary the option fields handed to the engine. *)
OptionObjs ==
  {[EmptyObj EXCEPT !.id = "r1", !.audio_file = "exists.wav",
                    !.condition_on_previous_text = c,
                    !.compression_ratio_threshold = r] :
     c \in Conditions, r \in Thresholds}
  \cup
  {[EmptyObj EXCEPT !.id = "r1", !.audio_file = "exists.wav",
                    !.initial_prompt = p, !.task = k, !.language = l] :
     p \in Prompts, k \in Tasks, l \in Languages}

(* A stripped input line, by what json.loads makes of it:                  *)
(*   blank    - empty after strip()                                        *)
(*   garbage  - not JSON                                                   *)
(*   null     - the JSON value null                                        *)
(*   falsy    - a non-object JSON value that Python treats as false        *)
(*              (0, "", [], false)                                         *)
(*   truthy   - a non-object JSON value that Python treats as true         *)
(*              ([1], 5, "x", true)                                        *)
(*   object   - a JSON object                                              *)
Lines ==
  {[kind |-> k, obj |-> EmptyObj] :
     k \in {"blank", "garbage", "null", "falsy", "truthy"}}
  \cup {[kind |-> "object", obj |-> o] : o \in ProtocolObjs \cup OptionObjs}

NonePayload == [kind |-> "none", obj |-> EmptyObj]

(* ---- helpers: Python semantics ---- *)
Loads(l) == IF l.kind = "null" THEN NonePayload ELSE l

IsDict(p) == p.kind = "object"

Truthy(p) ==
  \/ p.kind = "truthy"
  \/ p.kind = "object" /\ p.obj # EmptyObj

GetStr(v) == IF v = Absent THEN None ELSE v

ExistsAlways(path) == TRUE

Exists(path) == path = "exists.wav"

NewReqIdKeep(p) == IF p.obj.id = Absent THEN req_id ELSE p.obj.id

NewReqId(p) == GetStr(p.obj.id)

DurationOk(p) == p.obj.duration.t # "str"

FloatDurationDefaultOne(p) ==
  IF p.obj.duration.t = "num" /\ p.obj.duration.n # 0
  THEN p.obj.duration.n ELSE 1

FloatDuration(p) ==
  IF p.obj.duration.t = "num" THEN p.obj.duration.n ELSE 0

OptionsNoDefault(p) ==
  [initial_prompt |-> IF p.obj.initial_prompt = Absent THEN ""
                      ELSE p.obj.initial_prompt,
   task |-> GetStr(p.obj.task),
   language |-> GetStr(p.obj.language),
   condition_on_previous_text |->
     IF p.obj.condition_on_previous_text = Absent THEN "true"
     ELSE p.obj.condition_on_previous_text,
   compression_ratio_threshold |->
     IF p.obj.compression_ratio_threshold.t = "num"
     THEN p.obj.compression_ratio_threshold ELSE NoneNum]

Options(p) ==
  [initial_prompt |-> IF p.obj.initial_prompt = Absent THEN ""
                      ELSE p.obj.initial_prompt,
   task |-> IF p.obj.task = Absent THEN "transcribe" ELSE p.obj.task,
   language |-> GetStr(p.obj.language),
   condition_on_previous_text |->
     IF p.obj.condition_on_previous_text = Absent THEN "true"
     ELSE p.obj.condition_on_previous_text,
   compression_ratio_threshold |->
     IF p.obj.compression_ratio_threshold.t = "num"
     THEN p.obj.compression_ratio_threshold ELSE NoneNum]

BaseKwargsFloorsFollowThreshold(opts) ==
  [beam_size |-> 5,
   language |-> opts.language,
   vad_filter |-> TRUE,
   vad_parameters |-> [threshold |-> 15, min_silence_duration_ms |-> 300,
                       speech_pad_ms |-> 200],
   task |-> opts.task,
   initial_prompt |-> IF opts.initial_prompt = None THEN ""
                      ELSE opts.initial_prompt,
   condition_on_previous_text |-> FALSE,
   no_speech_threshold |->
     IF opts.compression_ratio_threshold = NoneNum THEN None ELSE "0.6",
   compression_ratio_threshold |-> NoneNum,
   log_prob_threshold |->
     IF opts.compression_ratio_threshold = NoneNum THEN None ELSE "-1.0"]

BaseKwargs(opts) ==
  [beam_size |-> 5,
   language |-> opts.language,
   vad_filter |-> TRUE,
   vad_parameters |-> [threshold |-> 15, min_silence_duration_ms |-> 300,
                       speech_pad_ms |-> 200],
   task |-> opts.task,
   initial_prompt |-> IF opts.initial_prompt = None THEN ""
                      ELSE opts.initial_prompt,
   condition_on_previous_text |-> FALSE,
   no_speech_threshold |-> None,
   compression_ratio_threshold |-> NoneNum,
   log_prob_threshold |-> None]

TranscribeKwargsConditioned(opts) ==
  [BaseKwargs(opts) EXCEPT
     !.condition_on_previous_text =
        (opts.condition_on_previous_text # "false"),
     !.compression_ratio_threshold =
        IF opts.compression_ratio_threshold # NoneNum
        THEN opts.compression_ratio_threshold ELSE NoneNum]

TranscribeKwargsTruthy(opts) ==
  IF opts.compression_ratio_threshold.t = "num"
     /\ opts.compression_ratio_threshold.n # 0
  THEN [BaseKwargs(opts) EXCEPT
          !.compression_ratio_threshold = opts.compression_ratio_threshold]
  ELSE BaseKwargs(opts)

TranscribeKwargs(opts) ==
  IF opts.compression_ratio_threshold # NoneNum
  THEN [BaseKwargs(opts) EXCEPT
          !.compression_ratio_threshold = opts.compression_ratio_threshold]
  ELSE BaseKwargs(opts)

(* round(x, 1) of x = end / duration * 100, in tenths: round half to even  *)
Round1(end, dur) ==
  LET n == end * 1000
      q == n \div dur
      r == n % dur
  IN IF 2 * r < dur THEN q
     ELSE IF 2 * r > dur THEN q + 1
     ELSE IF q % 2 = 0 THEN q ELSE q + 1

Min(a, b) == IF a < b THEN a ELSE b

PctNoClamp(end, dur) == Round1(end, dur)

Pct(end, dur) == Min(1000, Round1(end, dur))

ShouldReportAlways(pct, last) == TRUE

ShouldReport(pct, last) == pct > last

AppendSegmentFront(segs, seg_data) == <<seg_data>> \o segs

AppendSegment(segs, seg_data) == Append(segs, seg_data)

AppendTextOverwrite(full, t) == t

AppendText(full, t) == full \o t

(* the sinks transcribe_with_model is given: run_server passes send_segment *)
(* always and send_progress when total_duration > 0; run_single_file       *)
(* passes neither                                                          *)
OnSegmentAlways(m) == TRUE

OnSegment(m) == m = "server"

OnProgress(m, d) == m = "server" /\ d > 0

(* what one iteration writes: the segment first, then its progress         *)
EmitProgressFirst(seg_part, progress_part) == progress_part \o seg_part

Emit(seg_part, progress_part) == seg_part \o progress_part

(* the loop goes on to the next segment *)
AfterSegmentReturn == "read"

AfterSegment == "drain"

(* ---- messages ---- *)
SendProgress(pct, rid) ==
  [type |-> "progress", id |-> rid, progress_pct |-> pct]

SendSegmentNoId(seg, rid) ==
  [type |-> "segment", id |-> None, data |-> seg]

SendSegment(seg, rid) == [type |-> "segment", id |-> rid, data |-> seg]

ResultResponseWithError(rid, res) ==
  [type |-> "result", id |-> rid, result |-> res, error |-> None]

ResultResponse(rid, res) == [type |-> "result", id |-> rid, result |-> res]

ErrorIdStale(p) == req_id

ErrorId(p) == IF Truthy(p) THEN GetStr(p.obj.id) ELSE None

ErrorResponseBare(rid, msg) == [error |-> msg]

ErrorResponse(rid, msg) == [type |-> "result", id |-> rid, error |-> msg]

(* ---- process start ---- *)
Argvs ==
  {<<>>, <<"--server">>, <<"exists.wav">>, <<"missing.wav">>,
   <<"exists.wav", "--server">>}

ModeDefaultServer ==
  IF Len(argv) >= 1 /\ argv[1] # "--server" THEN "single" ELSE "server"

Mode ==
  IF Len(argv) >= 1 /\ argv[1] = "--server" THEN "server"
  ELSE IF Len(argv) >= 1 THEN "single"
  ELSE "usage"

AssetStates ==
  {a \in [dir : BOOLEAN, model_bin : BOOLEAN, config_json : BOOLEAN,
          loadable : BOOLEAN] :
     ~a.dir => (~a.model_bin /\ ~a.config_json)}

EnsureModelPathDirOnly(a) ==
  IF ~a.dir THEN "Model directory not found" ELSE "ok"

EnsureModelPath(a) ==
  IF ~a.dir THEN "Model directory not found"
  ELSE IF ~a.model_bin THEN "Model file missing: model.bin"
  ELSE IF ~a.config_json THEN "Model file missing: config.json"
  ELSE "ok"

CreateModel(a) ==
  IF EnsureModelPath(a) # "ok" THEN EnsureModelPath(a)
  ELSE IF ~a.loadable THEN "LoadError"
  ELSE "ok"

(* the handle run_server gives to transcribe_with_model *)
RequestModelFresh == loads + 1

RequestModel == model

(* options=None in run_single_file: opts = {} *)
EmptyOpts ==
  [initial_prompt |-> None, task |-> "transcribe", language |-> None,
   condition_on_previous_text |-> None,
   compression_ratio_threshold |-> NoneNum]

(* ---- the engine ---- *)
Infos == {[language |-> "en", language_probability |-> 99, duration |-> MaxT]}

(* The engine's segments: any end time and any text; the code never reads  *)
(* a segment's start except to copy it, so one start per end is enough.    *)
StartOf(e) == IF e = 0 THEN 0 ELSE e - 1

Segments ==
  {[start |-> StartOf(e), end |-> e, text |-> t] : e \in 0..MaxT, t \in Texts}

(* Locals of a transcribe_with_model frame that is not active. *)
NoKwargs == [dead |-> TRUE]
NoInfo == [dead |-> TRUE]

FrameDead ==
  /\ transcribe_kwargs' = NoKwargs
  /\ info' = NoInfo
  /\ result_segments' = <<>>
  /\ full_text' = ""
  /\ last_pct' = -10

(* ---- state machine ---- *)
Init ==
  /\ argv \in Argvs
  /\ assets \in AssetStates
  /\ model = 0
  /\ loads = 0
  /\ pc = "main"
  /\ line = [kind |-> "blank", obj |-> EmptyObj]
  /\ payload = NonePayload
  /\ req_id = Unbound
  /\ total_duration = 0
  /\ exc = ""
  /\ transcribe_kwargs = NoKwargs
  /\ info = NoInfo
  /\ result_segments = <<>>
  /\ full_text = ""
  /\ last_pct = -10
  /\ out = <<>>
  /\ engine_calls = 0
  /\ handle_used = 0
  /\ yielded = <<>>
  /\ engine_raised = "no"
  /\ prev_failed = FALSE
  /\ prev_full_id = ""
  /\ nRead = 0
  /\ nNonBlank = 0
  /\ nResults = 0

env == <<argv, assets>>
loop_locals == <<line, payload, req_id, total_duration>>
frame == <<transcribe_kwargs, info, result_segments, full_text, last_pct>>
history == <<prev_failed, prev_full_id, nRead, nNonBlank>>

(* __main__, lines 183-189: mode selection *)
Main ==
  /\ pc = "main"
  /\ IF Mode = "server" THEN pc' = "start" /\ UNCHANGED out
     ELSE IF Mode = "single" THEN pc' = "single" /\ UNCHANGED out
     ELSE /\ out' = Append(out, [error |-> "Usage"])
          /\ pc' = "done"
  /\ UNCHANGED <<env, model, loads, loop_locals, exc, frame, engine_calls,
                 handle_used, yielded, engine_raised, history, nResults>>

(* run_server, lines 129-137: create_model succeeds *)
CreateModelOk ==
  /\ pc = "start"
  /\ CreateModel(assets) = "ok"
  /\ loads' = loads + 1
  /\ model' = loads + 1
  /\ pc' = "read"
  /\ UNCHANGED <<env, loop_locals, exc, frame, out, engine_calls,
                 handle_used, yielded, engine_raised, history, nResults>>

(* run_server, lines 130-135: create_model raises; one bare error object *)
CreateModelFail ==
  /\ pc = "start"
  /\ CreateModel(assets) # "ok"
  /\ loads' = loads + 1
  /\ out' = Append(out, [error |-> CreateModel(assets)])
  /\ pc' = "done"
  /\ UNCHANGED <<env, model, loop_locals, exc, frame, engine_calls,
                 handle_used, yielded, engine_raised, history, nResults>>

Failed(o) == o # <<>> /\ "error" \in DOMAIN o[Len(o)]

FullId(o) ==
  IF \E i \in 1..Len(o) :
       "progress_pct" \in DOMAIN o[i] /\ o[i].progress_pct = 1000
  THEN o[1].id
  ELSE ""

(* run_server, lines 140-142: readline returns "" at end of stream *)
ReadEof ==
  /\ pc = "read"
  /\ pc' = "done"
  /\ UNCHANGED <<env, model, loads, loop_locals, exc, frame, out,
                 engine_calls, handle_used, yielded, engine_raised, history,
                 nResults>>

IsBlankNever(l) == FALSE

IsBlank(l) == l.kind = "blank"

(* run_server, lines 140-147: a line is read and stripped; a blank line    *)
(* continues, any other resets payload and enters the try block            *)
ReadLine ==
  /\ pc = "read"
  /\ nRead < MaxLines
  /\ \E l \in Lines :
       /\ line' = l
       /\ IF IsBlank(l)
          THEN /\ pc' = "read"
               /\ UNCHANGED payload
          ELSE /\ pc' = "dispatch"
               /\ payload' = NonePayload
       /\ nNonBlank' = IF l.kind = "blank" THEN nNonBlank ELSE nNonBlank + 1
  /\ nRead' = nRead + 1
  /\ out' = <<>>
  /\ engine_calls' = 0
  /\ handle_used' = 0
  /\ yielded' = <<>>
  /\ engine_raised' = "no"
  /\ prev_failed' = IF line.kind = "blank" THEN prev_failed ELSE Failed(out)
  /\ prev_full_id' = IF line.kind = "blank" THEN prev_full_id
                     ELSE FullId(out)
  /\ UNCHANGED <<env, model, loads, req_id, total_duration, exc, frame,
                 nResults>>

Raise(msg) ==
  /\ pc' = "except"
  /\ exc' = msg

OriginIdOf(l) ==
  IF l.kind = "object" /\ l.obj.id # Absent THEN l.obj.id ELSE None

(* last_pct at the start of a call: -1 *)
InitialLastPctById ==
  IF prev_full_id # "" /\ prev_full_id = OriginIdOf(line) THEN 1000 ELSE -10

InitialLastPct == -10

(* transcribe_with_model, lines 37-91: check the file, build the           *)
(* configuration from opts, call model.transcribe, initialise the locals   *)
Transcribe(file_path, opts) ==
  /\ handle_used' = RequestModel
  /\ IF ~Exists(file_path)
     THEN /\ Raise("File not found")
          /\ UNCHANGED <<frame, engine_calls, engine_raised>>
     ELSE /\ engine_calls' = engine_calls + 1
          /\ \/ \* model.transcribe raises
                /\ Raise("EngineError")
                /\ engine_raised' = "call"
                /\ UNCHANGED frame
             \/ \* model.transcribe returns (segments, info)
                /\ \E i \in Infos : info' = i
                /\ transcribe_kwargs' = TranscribeKwargs(opts)
                /\ result_segments' = <<>>
                /\ full_text' = ""
                /\ last_pct' = InitialLastPct
                /\ pc' = "drain"
                /\ UNCHANGED <<exc, engine_raised>>

(* run_server, lines 148-176: decode the line, read the loop's fields,     *)
(* validate, and call transcribe_with_model                                *)
Dispatch ==
  /\ pc = "dispatch"
  /\ IF line.kind = "garbage"
     THEN \* json.loads raises; payload stays None
          /\ Raise("JSONDecodeError")
          /\ UNCHANGED <<payload, req_id, total_duration, frame,
                         engine_calls, handle_used, engine_raised>>
     ELSE
       /\ payload' = Loads(line)
       /\ IF ~IsDict(Loads(line))
          THEN \* payload.get raises at line 150
               /\ Raise("AttributeError")
               /\ UNCHANGED <<req_id, total_duration, frame, engine_calls,
                              handle_used, engine_raised>>
          ELSE
            /\ req_id' = NewReqId(Loads(line))
            /\ IF ~DurationOk(Loads(line))
               THEN \* float() raises at line 152
                    /\ Raise("ValueError: could not convert to float")
                    /\ UNCHANGED <<total_duration, frame, engine_calls,
                                   handle_used, engine_raised>>
               ELSE
                 /\ total_duration' = FloatDuration(Loads(line))
                 /\ IF line.obj.audio_file \in {Absent, ""}
                    THEN /\ Raise("audio_file is required")
                         /\ UNCHANGED <<frame, engine_calls, handle_used,
                                        engine_raised>>
                    ELSE Transcribe(line.obj.audio_file,
                                    Options(Loads(line)))
  /\ UNCHANGED <<env, model, loads, line, out, yielded, history, nResults>>

(* transcribe_with_model, lines 93-109: one iteration of the drain loop    *)
DrainSegment ==
  /\ pc = "drain"
  /\ Len(result_segments) < MaxSegs
  /\ \E segment \in Segments :
       LET seg_data == [start |-> segment.start, end |-> segment.end,
                        text |-> segment.text]
           pct == Pct(segment.end, total_duration)
           report == /\ OnProgress(Mode, total_duration)
                     /\ total_duration > 0
                     /\ ShouldReport(pct, last_pct)
       IN /\ result_segments' = AppendSegment(result_segments, seg_data)
          /\ full_text' = AppendText(full_text, segment.text)
          /\ yielded' = Append(yielded, segment)
          /\ last_pct' = IF report THEN pct ELSE last_pct
          /\ out' = out \o
               Emit(IF OnSegment(Mode)
                    THEN <<SendSegment(seg_data, req_id)>> ELSE <<>>,
                    IF report
                    THEN <<SendProgress(pct, req_id)>> ELSE <<>>)
  /\ pc' = AfterSegment
  /\ UNCHANGED <<env, model, loads, loop_locals, exc, transcribe_kwargs,
                 info, engine_calls, handle_used, engine_raised, history,
                 nResults>>

(* transcribe_with_model, line 93: the engine raises while being iterated  *)
DrainRaise ==
  /\ pc = "drain"
  /\ Raise("EngineError")
  /\ engine_raised' = "iter"
  /\ FrameDead
  /\ UNCHANGED <<env, model, loads, loop_locals, out, engine_calls,
                 handle_used, yielded, history, nResults>>

Result ==
  [language |-> info.language,
   language_probability |-> info.language_probability,
   duration |-> info.duration,
   segments |-> result_segments,
   text |-> full_text]

(* transcribe_with_model, lines 111-117 and run_server, lines 177, 181:    *)
(* the sequence is exhausted; the result is returned, wrapped and printed  *)
DrainDone ==
  /\ pc = "drain"
  /\ Mode = "server"
  /\ out' = Append(out, ResultResponse(req_id, Result))
  /\ nResults' = nResults + 1
  /\ pc' = "read"
  /\ FrameDead
  /\ UNCHANGED <<env, model, loads, loop_locals, exc, engine_calls,
                 handle_used, yielded, engine_raised, history>>

(* run_server, lines 178-181: the handler builds the error response and    *)
(* prints it; e is unbound when the except clause ends.  payload.get("id") *)
(* itself raises when payload is a truthy value that is not a dict; that   *)
(* exception is not caught.                                                *)
Except ==
  /\ pc = "except"
  /\ Mode = "server"
  /\ IF Truthy(payload) /\ ~IsDict(payload)
     THEN /\ pc' = "crashed"
          /\ UNCHANGED <<out, nResults>>
     ELSE /\ out' = Append(out, ErrorResponse(ErrorId(payload), exc))
          /\ nResults' = nResults + 1
          /\ pc' = "read"
  /\ exc' = ""
  /\ UNCHANGED <<env, model, loads, loop_locals, frame, engine_calls,
                 handle_used, yielded, engine_raised, history>>

(* run_single_file, lines 120-122: create_model inside the try block *)
SingleCreateModel ==
  /\ pc = "single"
  /\ loads' = loads + 1
  /\ IF CreateModel(assets) = "ok"
     THEN /\ model' = loads + 1
          /\ pc' = "single_call"
          /\ UNCHANGED exc
     ELSE /\ Raise(CreateModel(assets))
          /\ UNCHANGED model
  /\ UNCHANGED <<env, loop_locals, frame, out, engine_calls, handle_used,
                 yielded, engine_raised, history, nResults>>

(* run_single_file, line 123: transcribe_with_model(model, audio_file)     *)
(* with no duration, no sinks and no options                               *)
SingleTranscribe ==
  /\ pc = "single_call"
  /\ Transcribe(argv[1], EmptyOpts)
  /\ UNCHANGED <<env, model, loads, loop_locals, out, yielded, history,
                 nResults>>

(* transcribe_with_model, lines 111-117 and run_single_file, line 124:     *)
(* the result is printed as one bare object                                *)
SingleDone ==
  /\ pc = "drain"
  /\ Mode = "single"
  /\ out' = Append(out, Result)
  /\ pc' = "done"
  /\ FrameDead
  /\ UNCHANGED <<env, model, loads, loop_locals, exc, engine_calls,
                 handle_used, yielded, engine_raised, history, nResults>>

(* run_single_file, lines 125-126: any exception becomes one error object  *)
SingleExcept ==
  /\ pc = "except"
  /\ Mode = "single"
  /\ out' = Append(out, [error |-> "Transcription failed: " \o exc])
  /\ pc' = "done"
  /\ exc' = ""
  /\ UNCHANGED <<env, model, loads, loop_locals, frame, engine_calls,
                 handle_used, yielded, engine_raised, history, nResults>>

Next ==
  \/ Main
  \/ CreateModelOk
  \/ CreateModelFail
  \/ ReadEof
  \/ ReadLine
  \/ Dispatch
  \/ DrainSegment
  \/ DrainRaise
  \/ DrainDone
  \/ Except
  \/ SingleCreateModel
  \/ SingleTranscribe
  \/ SingleDone
  \/ SingleExcept

Spec == Init /\ [][Next]_vars

TypeOK ==
  /\ pc \in {"main", "start", "read", "dispatch", "drain", "except",
             "single", "single_call", "done", "crashed"}
  /\ nRead \in 0..MaxLines
  /\ engine_calls \in 0..1
  /\ last_pct \in -10..1000
  /\ loads \in 0..1
  /\ nResults \in 0..nNonBlank

(* ---- vocabulary of the properties ---- *)
IsType(m, t) == "type" \in DOMAIN m /\ m.type = t
IsProgress(m) == IsType(m, "progress")
IsSegment(m) == IsType(m, "segment")
IsResult(m) == IsType(m, "result")
IsError(m) == IsResult(m) /\ "error" \in DOMAIN m
IsSuccess(m) == IsResult(m) /\ "result" \in DOMAIN m

\* the current line is a non-blank line that has been read
InHand == nRead > 0 /\ line.kind # "blank"
\* ... and run_server is through with it and back at readline (or at EOF)
Handled == InHand /\ pc \in {"read", "done"}
\* ... or the process has stopped on it
Over == InHand /\ pc \in {"read", "done", "crashed"}

OriginId(l) ==
  IF l.kind = "object" /\ l.obj.id # Absent THEN l.obj.id ELSE None

LacksAudio(l) == l.kind = "object" /\ l.obj.audio_file \in {Absent, ""}
MissingFile(l) == l.kind = "object" /\ l.obj.audio_file = "missing.wav"
ValidLine(l) ==
  l.kind = "object" /\ l.obj.audio_file = "exists.wav"
  /\ l.obj.duration.t # "str"

RECURSIVE ConcatTexts(_)
ConcatTexts(ms) ==
  IF ms = <<>> THEN ""
  ELSE ms[1].data.text \o ConcatTexts(Tail(ms))

(* ---- C1 ---- *)
\* C1: once run_server is through with a non-blank line (or has stopped on
\* it), exactly one result message has been written for that line and it is
\* the last message written for it.
C1_OneResultLast ==
  Over =>
    /\ out # <<>>
    /\ IsResult(out[Len(out)])
    /\ \A i \in 1..(Len(out) - 1) : ~IsResult(out[i])

(* ---- C2 ---- *)
\* C2: no input line stops the process: the server never leaves the loop on
\* an uncaught exception, and a line that is not a JSON object ends with an
\* error result before the next readline.
C2_NoLineAbortsServer ==
  /\ pc # "crashed"
  /\ (Handled /\ line.kind \in {"garbage", "null", "falsy", "truthy"})
       => (out # <<>> /\ IsError(out[Len(out)]))

(* ---- C3 ---- *)
\* C3: the progress_pct values written for a request are strictly
\* increasing and every one lies in [0, 100] (0..1000 tenths).
C3_ProgressStrictlyIncreasing ==
  LET ps == SelectSeq(out, IsProgress)
  IN \A i \in 1..Len(ps) :
       /\ ps[i].progress_pct \in 0..1000
       /\ i > 1 => ps[i - 1].progress_pct < ps[i].progress_pct

\* a request with duration > 0 for which a later segment's percentage did
\* not exceed the last one reported, after a progress event was written
C3_Witness ==
  /\ total_duration > 0
  /\ Len(SelectSeq(out, IsProgress)) = 1
  /\ Len(SelectSeq(out, IsSegment)) = 2
  /\ Len(yielded) = 2 /\ yielded[2].end <= yielded[1].end

C5_ThresholdPassThrough ==
  pc = "drain" =>
    LET r == payload.obj.compression_ratio_threshold
    IN /\ r.t \in {"absent", "null"}
            => transcribe_kwargs.compression_ratio_threshold = NoneNum
       /\ r.t = "num"
            => transcribe_kwargs.compression_ratio_threshold = r

C5_Witness ==
  /\ pc = "drain"
  /\ payload.obj.compression_ratio_threshold = Num(0)
  /\ transcribe_kwargs.compression_ratio_threshold = Num(0)

(* ---- C6 ---- *)
\* C6: while and after a request whose audio_file does not exist is
\* handled, the engine is not called and no progress or segment message is
\* written; when the request is done exactly one error result with the
\* request's id has been written (the not-found error when the request
\* reached transcribe_with_model).
C6_MissingFileNoEngineCall ==
  (nRead > 0 /\ MissingFile(line)) =>
    /\ engine_calls = 0
    /\ yielded = <<>>
    /\ \A i \in 1..Len(out) : IsError(out[i])
    /\ pc \in {"read", "done"} =>
         /\ Len(out) = 1
         /\ out[1].id = OriginId(line)
         /\ line.obj.duration.t # "str" => out[1].error = "File not found"

C6_Witness ==
  /\ pc = "read"
  /\ MissingFile(line)
  /\ line.obj.id = "r1"
  /\ out = <<ErrorResponse("r1", "File not found")>>

(* ---- C7 ---- *)
\* C7: when a request succeeded, the texts of its segment messages,
\* concatenated in the order written, are the text of its result.
C7_TextRoundTrip ==
  (Handled /\ IsSuccess(out[Len(out)])) =>
    ConcatTexts(SelectSeq(out, IsSegment)) = out[Len(out)].result.text

C7_Witness ==
  /\ Handled
  /\ IsSuccess(out[Len(out)])
  /\ Len(SelectSeq(out, IsSegment)) = 2
  /\ out[Len(out)].result.text = "ab"

(* ---- C8 ---- *)
\* What one request line writes when it is the first line of input: the
\* messages computed from the line, the segments the engine yields for it
\* and whether the engine raises, starting from nothing.
RECURSIVE FreshEvents(_, _, _, _)
FreshEvents(segs, rid, dur, last) ==
  IF segs = <<>> THEN <<>>
  ELSE LET sg == segs[1]
           p == IF dur > 0 THEN Min(1000, Round1(sg.end, dur)) ELSE -10
           seg_msg == [type |-> "segment", id |-> rid, data |-> sg]
       IN IF p > last
          THEN <<seg_msg, [type |-> "progress", id |-> rid,
                           progress_pct |-> p]>>
               \o FreshEvents(Tail(segs), rid, dur, p)
          ELSE <<seg_msg>> \o FreshEvents(Tail(segs), rid, dur, last)

RECURSIVE JoinTexts(_)
JoinTexts(segs) ==
  IF segs = <<>> THEN "" ELSE segs[1].text \o JoinTexts(Tail(segs))

AsFirstLine(l, segs, raised) ==
  LET rid == IF l.obj.id = Absent THEN None ELSE l.obj.id
      dur == IF l.obj.duration.t = "num" THEN l.obj.duration.n ELSE 0
      i == CHOOSE x \in Infos : TRUE
  IN FreshEvents(segs, rid, dur, -10)
     \o IF raised = "no"
        THEN <<[type |-> "result", id |-> rid,
                result |-> [language |-> i.language,
                            language_probability |-> i.language_probability,
                            duration |-> i.duration,
                            segments |-> segs,
                            text |-> JoinTexts(segs)]]>>
        ELSE <<[type |-> "result", id |-> rid, error |-> "EngineError"]>>

C9_ErrorIdRecovered ==
  Handled =>
    /\ line.kind = "garbage" =>
         out = <<ErrorResponse(None, "JSONDecodeError")>>
    /\ (LacksAudio(line) /\ line.obj.id # Absent) =>
         /\ Len(out) = 1
         /\ IsError(out[1])
         /\ out[1].id = line.obj.id
         /\ engine_calls = 0

C9_Witness ==
  /\ Handled
  /\ LacksAudio(line)
  /\ line.obj.id = "r2"
  /\ out = <<ErrorResponse("r2", "audio_file is required")>>

(* ---- C10 ---- *)
\* C10: every progress, segment and result message written while a line is
\* handled carries the id of that line's request (null when the line has
\* none).
C10_IdEchoed ==
  \A i \in 1..Len(out) :
    "type" \in DOMAIN out[i] => out[i].id = OriginId(line)

C10_Witness ==
  /\ Handled
  /\ line.obj.id = "r2"
  /\ \E i, j, k \in 1..Len(out) :
       /\ IsProgress(out[i]) /\ out[i].id = "r2"
       /\ IsSegment(out[j]) /\ out[j].id = "r2"
       /\ IsSuccess(out[k]) /\ out[k].id = "r2"

(* ---- C11 ---- *)
\* C11: in server mode the segment messages are written in the order the
\* engine yields the segments, a progress message is written right after
\* the segment message of the segment it was computed from (so before the
\* next segment's message), and the result comes after all of them.
C11_EventOrder ==
  Mode = "server" =>
    LET segs == SelectSeq(out, IsSegment)
    IN /\ Len(segs) = Len(yielded)
       /\ \A k \in 1..Len(segs) : segs[k].data = yielded[k]
       /\ \A i \in 1..Len(out) :
            /\ IsProgress(out[i]) => (i > 1 /\ IsSegment(out[i - 1]))
            /\ IsResult(out[i]) => i = Len(out)

C11_Witness ==
  /\ Handled
  /\ Len(out) = 5
  /\ IsSegment(out[1]) /\ IsProgress(out[2])
  /\ IsSegment(out[3]) /\ IsProgress(out[4])
  /\ IsSuccess(out[5])
  /\ out[1].data.text = "a" /\ out[3].data.text = "b"

(* ---- C12 ---- *)
\* C12: a line is read only when the line before it is finished: no call
\* of transcribe_with_model is in progress and, unless that line was blank,
\* its result has been written; and the engine is called at most once per
\* line.
C12_Sequential ==
  /\ [](engine_calls <= 1)
  /\ [][nRead' # nRead =>
          /\ transcribe_kwargs = NoKwargs
          /\ pc = "read"
          /\ \/ nRead = 0
             \/ line.kind = "blank"
             \/ out # <<>> /\ IsResult(out[Len(out)])]_vars

\* a second request is being drained after the first one got its result
C12_Witness ==
  /\ nRead = 2 /\ nResults = 1 /\ nNonBlank = 2
  /\ pc = "drain"
  /\ Len(out) >= 2

(* ---- C13 ---- *)
\* C13: in server mode create_model has been called exactly once from the
\* moment the loop is entered until the process ends, and every call of
\* transcribe_with_model is given the handle that call created.
C13_LoadedOnce ==
  (Mode = "server" /\ pc \notin {"main", "start"}) =>
    /\ loads = 1
    /\ handle_used # 0 => (handle_used = model /\ model = 1)

\* a request that reaches the engine after a failed request
C13_Witness ==
  /\ Mode = "server"
  /\ nRead = 2 /\ prev_failed
  /\ engine_calls = 1
  /\ handle_used = 1 /\ loads = 1

(* ---- C14 ---- *)
AssetsBad ==
  ~assets.dir \/ ~assets.model_bin \/ ~assets.config_json \/ ~assets.loadable

\* C14: when the model directory, model.bin or config.json is missing, or
\* the engine cannot be loaded, no input line is ever read and the engine's
\* transcribe is never called; server mode ends with exactly one bare error
\* object written, and one-shot mode ends with one error object.
C14_StartupFailureFatal ==
  AssetsBad =>
    /\ nRead = 0
    /\ engine_calls = 0
    /\ handle_used = 0
    /\ model = 0
    /\ pc \notin {"read", "dispatch", "drain", "single_call", "crashed"}
    /\ Len(out) <= 1
    /\ (Mode = "server" /\ pc \notin {"main", "start"}) =>
         /\ pc = "done"
         /\ Len(out) = 1 /\ DOMAIN out[1] = {"error"}
    /\ (Mode = "single" /\ pc = "done") =>
         Len(out) = 1 /\ DOMAIN out[1] = {"error"}

\* server mode with config.json missing has stopped on its one error line
C14_Witness ==
  /\ Mode = "server"
  /\ assets.dir /\ assets.model_bin /\ ~assets.config_json /\ assets.loadable
  /\ pc = "done"
  /\ out = <<[error |-> "Model file missing: config.json"]>>

(* ---- C15 ---- *)
\* C15: one-shot mode writes nothing before it ends and exactly one line
\* when it ends; that line has no type field and is either the result or
\* an object with only an error field; no progress or segment message is
\* ever written.
C15_OneShotOneLine ==
  Mode = "single" =>
    /\ \A i \in 1..Len(out) : "type" \notin DOMAIN out[i]
    /\ pc # "done" => out = <<>>
    /\ pc = "done" =>
         /\ Len(out) = 1
         /\ \/ DOMAIN out[1] = {"error"}
            \/ DOMAIN out[1] = {"language", "language_probability",
                                "duration", "segments", "text"}

\* one-shot mode has printed the result of a file with two segments
C15_Witness ==
  /\ Mode = "single"
  /\ pc = "done"
  /\ Len(yielded) = 2
  /\ Len(out) = 1
  /\ "text" \in DOMAIN out[1]
  /\ out[1].text = "ab"

(* ---- C16 ---- *)
\* C16: when the engine raises while its segments are drained, the segment
\* and progress messages of the segments already yielded stay written (as
\* computed from those segments), one error result with the request's id
\* follows them, the loop is back at readline and the engine handle is the
\* one loaded at startup.
C16_DrainFailure ==
  (Handled /\ engine_raised = "iter") =>
    LET n == Len(out)
        dur == IF line.obj.duration.t = "num" THEN line.obj.duration.n ELSE 0
    IN /\ n >= 1
       /\ IsError(out[n])
       /\ out[n].id = OriginId(line)
       /\ out[n].error = "EngineError"
       /\ SubSeq(out, 1, n - 1)
            = FreshEvents(yielded, OriginId(line), dur, -10)
       /\ Len(SelectSeq(out, IsSegment)) = Len(yielded)
       /\ model = 1 /\ handle_used = model /\ loads = 1

\* two segments with progress were delivered before the engine raised
C16_Witness ==
  /\ Handled /\ pc = "read"
  /\ engine_raised = "iter"
  /\ Len(yielded) = 2
  /\ Len(out) = 5
  /\ IsProgress(out[4])
  /\ IsError(out[5]) /\ out[5].id = "r1"

(* ---- C17 ---- *)
\* C17: when the server process has ended it has ended by reaching
\* end-of-stream, and it has written exactly one result message for each
\* non-blank line it read.
C17_EndsAtEofOneResultPerLine ==
  (Mode = "server" /\ model # 0 /\ pc \in {"done", "crashed"}) =>
    /\ pc = "done"
    /\ nResults = nNonBlank

(* ---- C18 ---- *)
\* C18: reading a blank line writes nothing, calls nothing and leaves the
\* loop at readline; while a blank line is the last line read nothing has
\* been written for it; and the loop ends only by a step that reads no
\* line (end-of-stream).
C18_BlankLineSkipped ==
  /\ []((nRead > 0 /\ line.kind = "blank") =>
          (out = <<>> /\ engine_calls = 0 /\ pc \in {"read", "done"}))
  /\ [][(nRead' # nRead /\ line'.kind = "blank") =>
          /\ pc' = "read"
          /\ out' = <<>>
          /\ nResults' = nResults
          /\ UNCHANGED <<model, loads, req_id, total_duration, frame>>]_vars
  /\ [][(pc = "read" /\ pc' = "done") => nRead' = nRead]_vars

\* a request was handled after a blank line
C18_Witness ==
  /\ nRead = 2 /\ nNonBlank = 1
  /\ Handled
  /\ IsSuccess(out[Len(out)])

(* ---- C19 ---- *)
NotProgress(m) == ~IsProgress(m)

NoDuration(l) ==
  \/ l.obj.duration.t \in {"absent", "null"}
  \/ l.obj.duration.t = "num" /\ l.obj.duration.n <= 0

\* C19: for a request whose duration is absent, null, 0 or negative no
\* progress message is written, and the messages written are those the same
\* request with a positive duration writes, less the progress messages.
C19_NoProgressWithoutDuration ==
  (Mode = "server" /\ nRead > 0 /\ line.kind = "object" /\ NoDuration(line))
    =>
    /\ \A i \in 1..Len(out) : ~IsProgress(out[i])
    /\ (Handled /\ ValidLine(line)) =>
         out = SelectSeq(AsFirstLine([line EXCEPT !.obj.duration = Num(3)],
                                     yielded, engine_raised),
                         NotProgress)

\* a request with a negative duration succeeded with two segments
C19_Witness ==
  /\ Handled /\ ValidLine(line)
  /\ line.obj.duration = Num(-1)
  /\ Len(out) = 3
  /\ IsSegment(out[1]) /\ IsSegment(out[2]) /\ IsSuccess(out[3])

(* ---- C20 ---- *)
\* p tenths is x = end / dur * 100 rounded to one decimal and clamped to
\* 100.0: p is 1000 when x is at least 99.95, else p is within 0.05 of x
NearestClamped(p, end, dur) ==
  LET n == end * 1000
  IN \/ p = 1000 /\ 2 * n >= 1999 * dur
     \/ /\ p < 1000
        /\ 2 * (p * dur - n) <= dur
        /\ 2 * (n - p * dur) <= dur

\* C20: every progress message follows the segment message of the segment
\* it was computed from and carries min(100.0, round(end / duration * 100,
\* 1)); it is 100 when the segment ends after the duration hint; after a
\* 100 no further progress message is written for the request.
C20_PercentageFormula ==
  (Mode = "server" /\ nRead > 0) =>
    \A i \in 1..Len(out) :
      IsProgress(out[i]) =>
        /\ line.kind = "object"
        /\ line.obj.duration.t = "num" /\ line.obj.duration.n > 0
        /\ i > 1 /\ IsSegment(out[i - 1])
        /\ NearestClamped(out[i].progress_pct, out[i - 1].data.end,
                          line.obj.duration.n)
        /\ out[i - 1].data.end > line.obj.duration.n
             => out[i].progress_pct = 1000
        /\ out[i].progress_pct = 1000
             => \A j \in (i + 1)..Len(out) : ~IsProgress(out[j])

\* a segment ending after the duration hint gave 100, and the next segment
\* was written without a progress message
C20_Witness ==
  /\ Handled
  /\ Len(out) = 4
  /\ IsSegment(out[1]) /\ out[1].data.end > line.obj.duration.n
  /\ IsProgress(out[2]) /\ out[2].progress_pct = 1000
  /\ IsSegment(out[3])
  /\ IsSuccess(out[4])

(* ---- C21 ---- *)
\* C21: whatever the request contains, the configuration given to the
\* engine has beam_size 5, the VAD filter on with threshold 0.15, minimum
\* silence 300 ms and speech pad 200 ms, and no_speech_threshold and
\* log_prob_threshold None.
C21_TuningFixed ==
  pc = "drain" =>
    /\ transcribe_kwargs.beam_size = 5
    /\ transcribe_kwargs.vad_filter = TRUE
    /\ transcribe_kwargs.vad_parameters
         = [threshold |-> 15, min_silence_duration_ms |-> 300,
            speech_pad_ms |-> 200]
    /\ transcribe_kwargs.no_speech_threshold = None
    /\ transcribe_kwargs.log_prob_threshold = None

\* a request that sets compression_ratio_threshold reached the engine
C21_Witness ==
  /\ Mode = "server"
  /\ pc = "drain"
  /\ line.obj.compression_ratio_threshold = Num(2)
  /\ transcribe_kwargs.compression_ratio_threshold = Num(2)
  /\ transcribe_kwargs.no_speech_threshold = None

(* ---- C22 ---- *)
\* the configuration as a function of the request's option fields alone
ConfigOf(o) ==
  [beam_size |-> 5,
   language |-> IF o.language = Absent THEN None ELSE o.language,
   vad_filter |-> TRUE,
   vad_parameters |-> [threshold |-> 15, min_silence_duration_ms |-> 300,
                       speech_pad_ms |-> 200],
   task |-> IF o.task = Absent THEN "transcribe" ELSE o.task,
   initial_prompt |-> IF o.initial_prompt \in {Absent, None, ""} THEN ""
                      ELSE o.initial_prompt,
   condition_on_previous_text |-> FALSE,
   no_speech_threshold |-> None,
   compression_ratio_threshold |->
     IF o.compression_ratio_threshold.t = "num"
     THEN o.compression_ratio_threshold ELSE NoneNum,
   log_prob_threshold |-> None]

\* C22: in server mode the configuration given to the engine is a function
\* of the option fields of the request line in hand, whatever was handled
\* before: initial_prompt is "" when absent, null or empty, task is
\* "transcribe" when absent, language is passed through (None when absent).
C22_ConfigPureFunction ==
  (Mode = "server" /\ pc = "drain") => transcribe_kwargs = ConfigOf(line.obj)

\* a second request with a null prompt and no task, after a first result
C22_Witness ==
  /\ Mode = "server"
  /\ pc = "drain"
  /\ nRead = 2 /\ nResults = 1
  /\ line.obj.initial_prompt = None
  /\ line.obj.task = Absent
  /\ line.obj.language = "en"
  /\ transcribe_kwargs.initial_prompt = ""
  /\ transcribe_kwargs.task = "transcribe"
  /\ transcribe_kwargs.language = "en"

(* ---- C23 ---- *)
\* str(e) of the exception a line raises ("" when it raises none)
ErrorOf(l, raised) ==
  IF l.kind = "garbage" THEN "JSONDecodeError"
  ELSE IF l.kind # "object" THEN "AttributeError"
  ELSE IF l.obj.duration.t = "str"
       THEN "ValueError: could not convert to float"
  ELSE IF l.obj.audio_file \in {Absent, ""} THEN "audio_file is required"
  ELSE IF l.obj.audio_file = "missing.wav" THEN "File not found"
  ELSE IF raised # "no" THEN "EngineError"
  ELSE ""

\* C23: a result message has, besides type and id, either the field result
\* or the field error and not both; the result of a handled line has result
\* when nothing was raised and error, with the exception's message, when
\* something was.
C23_ResultXorError ==
  /\ \A i \in 1..Len(out) :
       IsResult(out[i]) =>
         \/ DOMAIN out[i] = {"type", "id", "result"}
         \/ DOMAIN out[i] = {"type", "id", "error"}
  /\ Handled =>
       LET m == out[Len(out)]
           e == ErrorOf(line, engine_raised)
       IN IF e = ""
          THEN "result" \in DOMAIN m
          ELSE "error" \in DOMAIN m /\ m.error = e

\* a success result for a line that follows a line with an error result
C23_Witness ==
  /\ Handled /\ prev_failed
  /\ DOMAIN out[Len(out)] = {"type", "id", "result"}

(* ---- C24 ---- *)
\* C24: the segments list of a success result is, element for element and
\* in order, the data of the segment messages written for the request, and
\* it has one element per segment the engine yielded in its one call.
C24_ResultSegmentsMatchEvents ==
  (Handled /\ IsSuccess(out[Len(out)])) =>
    LET segs == SelectSeq(out, IsSegment)
        r == out[Len(out)].result.segments
    IN /\ Len(r) = Len(segs)
       /\ \A k \in 1..Len(r) :
            /\ r[k].start = segs[k].data.start
            /\ r[k].end = segs[k].data.end
            /\ r[k].text = segs[k].data.text
       /\ Len(r) = Len(yielded)
       /\ engine_calls = 1

C24_Witness ==
  /\ Handled /\ IsSuccess(out[Len(out)])
  /\ Len(out[Len(out)].result.segments) = 2
  /\ out[Len(out)].result.segments[1] = [start |-> 1, end |-> 2, text |-> "b"]
  /\ out[Len(out)].result.segments[2] = [start |-> 0, end |-> 1, text |-> "a"]

(* ---- C25 ---- *)
\* C25: every call of transcribe_with_model starts with last_pct = -1, so
\* for every request with duration > 0, whatever was delivered before and
\* under whatever id, the first segment's message is followed by the
\* progress computed from that segment.
C25_ProgressRestarts ==
  /\ (pc = "drain" /\ yielded = <<>>) => last_pct = -10
  /\ (Mode = "server" /\ nRead > 0 /\ line.kind = "object"
      /\ line.obj.duration.t = "num" /\ line.obj.duration.n > 0
      /\ yielded # <<>>) =>
       /\ Len(out) >= 2
       /\ IsSegment(out[1])
       /\ IsProgress(out[2])
       /\ NearestClamped(out[2].progress_pct, yielded[1].end,
                         line.obj.duration.n)

\* a request reusing the id under which the previous request was sent 100.0
\* starts below 100 again
C25_Witness ==
  /\ Handled
  /\ prev_full_id = "r1"
  /\ line.obj.id = "r1"
  /\ Len(out) >= 2
  /\ IsProgress(out[2])
  /\ out[2].progress_pct < 1000

(* ---- C26 ---- *)
\* C26: with "--server" as first argument only the server loop runs; with
\* any other first argument only run_single_file runs, on that path, and no
\* input line is read; with no argument nothing is loaded or read and one
\* usage error object is written.
C26_ModeSelection ==
  /\ argv = <<>> =>
       /\ pc \in {"main", "done"}
       /\ loads = 0 /\ model = 0 /\ nRead = 0 /\ engine_calls = 0
       /\ pc = "main" => out = <<>>
       /\ pc = "done" => (Len(out) = 1 /\ DOMAIN out[1] = {"error"})
  /\ (argv # <<>> /\ argv[1] = "--server") =>
       /\ pc \notin {"single", "single_call"}
       /\ \A i \in 1..Len(out) :
            "type" \in DOMAIN out[i] \/ (DOMAIN out[i] = {"error"} /\ model = 0)
  /\ (argv # <<>> /\ argv[1] # "--server") =>
       /\ pc \notin {"start", "read", "dispatch", "crashed"}
       /\ nRead = 0
       /\ \A i \in 1..Len(out) : "type" \notin DOMAIN out[i]
       /\ argv[1] = "missing.wav" => engine_calls = 0
       /\ (argv[1] = "exists.wav" /\ pc = "done" /\ model # 0)
            => engine_calls = 1

\* one-shot mode on a path followed by "--server" printed its result
C26_Witness ==
  /\ argv = <<"exists.wav", "--server">>
  /\ pc = "done"
  /\ Len(out) = 1
  /\ "text" \in DOMAIN out[1]

====
